---- MODULE Spec2Model ----
(***************************************************************************)
(* Model of rust-strftime-wrapper (src/src/lib.rs): the two public         *)
(* functions strftime_format and parse_strftime, together with the four   *)
(* C library routines they delegate to (gmtime_r, strftime, strptime,     *)
(* mktime), modelled after their POSIX / glibc behaviour in the C locale. *)
(*                                                                         *)
(* Strings are sequences of one-character strings; "NUL" stands for the   *)
(* byte 0, which a Rust &str may contain.  All characters used are ASCII, *)
(* so str::len() is Len.                                                   *)
(*                                                                         *)
(* A time_t / i64 timestamp is kept in mixed radix, because the model     *)
(* checker's integers are 32 bits wide: [era, doe, sod] stands for        *)
(*   ((era * 146097 + doe) - 719468) * 86400 + sod                        *)
(* with 0 <= doe < 146097 (day of the 400-year era that starts on         *)
(* 0000-03-01) and 0 <= sod < 86400.  The encoding is one-to-one, so      *)
(* equality of timestamps is equality of records.                         *)
(***************************************************************************)
EXTENDS Integers, Sequences, FiniteSets, TLC

(***************************************************************************)
(* Bounds of the model.                                                    *)
(***************************************************************************)
\* the ghost counter of strftime attempts saturates here
MaxAttempts == 4

(***************************************************************************)
(* Characters and numbers.                                                 *)
(***************************************************************************)
NUL == "NUL"
\* what *p reads at the terminating byte of a C string
EOS == "EOS"

DigitChars == <<"0", "1", "2", "3", "4", "5", "6", "7", "8", "9">>

IsDigit(c) == \E i \in 1..10 : DigitChars[i] = c

DigitVal(c) == (CHOOSE i \in 1..10 : DigitChars[i] = c) - 1

ISSPACE(c) == c = " "

\* s[i] of a C string: the terminator once past the end
CharAt(s, i) == IF i <= Len(s) THEN s[i] ELSE EOS

RECURSIVE Pow2(_)
Pow2(k) == IF k = 0 THEN 1 ELSE 2 * Pow2(k - 1)

RECURSIVE NumStr(_)
\* decimal digits of n >= 0, no padding
NumStr(n) == IF n < 10 THEN <<DigitChars[n + 1]>>
             ELSE NumStr(n \div 10) \o <<DigitChars[(n % 10) + 1]>>

RECURSIVE ZeroPad(_, _)
ZeroPad(s, width) == IF Len(s) >= width THEN s ELSE ZeroPad(<<"0">> \o s, width)

\* glibc strftime DO_NUMBER (digits, value): sign, then zero padding
DO_NUMBER(digits, value) ==
    IF value < 0 THEN <<"-">> \o ZeroPad(NumStr(-value), digits - 1)
    ELSE ZeroPad(NumStr(value), digits)

(***************************************************************************)
(* Timestamps (c_time_t = i64).                                            *)
(***************************************************************************)
DaysPerEra == 146097
SecsPerDay == 86400
\* days from 0000-03-01 to 1970-01-01
EpochShift == 719468

\* the timestamp of `days` whole days and `secs` seconds from the epoch
TimeT(days, secs) ==
    LET dd == days + (secs \div SecsPerDay)
        z  == dd + EpochShift
    IN  [era |-> z \div DaysPerEra, doe |-> z % DaysPerEra, sod |-> secs % SecsPerDay]

\* the i64 value -1, mktime's error return
MinusOne == TimeT(0, -1)

I64_MAX == [era |-> 730692566, doe |-> 71866, sod |-> 55807]
I64_MIN == [era |-> -730692557, doe |-> 52196, sod |-> 30592]

(***************************************************************************)
(* struct tm.                                                              *)
(***************************************************************************)
\* impl Default for tm
tm_default ==
    [tm_sec |-> 0, tm_min |-> 0, tm_hour |-> 0, tm_mday |-> 0, tm_mon |-> 0,
     tm_year |-> 0, tm_wday |-> 0, tm_yday |-> 0, tm_isdst |-> 0,
     tm_gmtoff |-> 0, tm_zone |-> "null"]

TM_YEAR_BASE == 1900

(***************************************************************************)
(* Proleptic Gregorian calendar arithmetic on eras.                        *)
(***************************************************************************)
IsLeap(y) == (y % 4 = 0) /\ ((y % 100 # 0) \/ (y % 400 = 0))

\* year of era (0..399, years starting in March) of a day of era
YearOfEra(doe) ==
    (doe - (doe \div 1460) + (doe \div 36524) - (doe \div 146096)) \div 365

\* the civil date of day `doe` of era `era`; the year is given as the
\* era and the year within it (0..400) so that it cannot overflow
CivilFromDays(era, doe) ==
    LET yoe == YearOfEra(doe)
        doy == doe - (365 * yoe + (yoe \div 4) - (yoe \div 100))
        mp  == (5 * doy + 2) \div 153
        d   == doy - ((153 * mp + 2) \div 5) + 1
        m   == IF mp < 10 THEN mp + 3 ELSE mp - 9
    IN  [era |-> era, yoe |-> IF m <= 2 THEN yoe + 1 ELSE yoe, mon |-> m, mday |-> d]

\* days before month m (1..12) in a year
DaysBeforeMonth(y, m) ==
    LET cum == <<0, 31, 59, 90, 120, 151, 181, 212, 243, 273, 304, 334>>
    IN  cum[m] + (IF m > 2 /\ IsLeap(y) THEN 1 ELSE 0)

\* [era, doe] of the civil date y-m-d; d may be any integer (day 0 is
\* the last day of the month before, day 32 rolls forward)
DaysFromCivil(y, m, d) ==
    LET yy  == IF m <= 2 THEN y - 1 ELSE y
        e   == yy \div 400
        yoe == yy - e * 400
        mp  == IF m > 2 THEN m - 3 ELSE m + 9
        doy == ((153 * mp + 2) \div 5) + d - 1
        tot == yoe * 365 + (yoe \div 4) - (yoe \div 100) + doy
    IN  [era |-> e + (tot \div DaysPerEra), doe |-> tot % DaysPerEra]

\* 0000-03-01 is a Wednesday; Sunday = 0
WeekDay(doe) == (doe + 3) % 7

\* bounds of the years whose tm_year fits a c_int, as era and year of era
MaxEra == 5368713
MaxEraYoe == 347
MinEra == -5368705
MinEraYoe == 252

YearFitsInt(c) ==
    /\ (c.era < MaxEra \/ (c.era = MaxEra /\ c.yoe <= MaxEraYoe))
    /\ (c.era > MinEra \/ (c.era = MinEra /\ c.yoe >= MinEraYoe))

\* the broken-down time of a timestamp at `off` seconds east of UTC;
\* ok is FALSE when the year does not fit tm_year
BreakDown(t, off, zone) ==
    LET secs == t.sod + off
        days == t.doe + (secs \div SecsPerDay)
        era  == t.era + (days \div DaysPerEra)
        doe  == days % DaysPerEra
        sod  == secs % SecsPerDay
        c    == CivilFromDays(era, doe)
    IN  IF ~YearFitsInt(c) THEN [ok |-> FALSE, tm |-> tm_default]
        ELSE LET y == c.era * 400 + c.yoe
             IN  [ok |-> TRUE,
                  tm |-> [tm_sec |-> sod % 60, tm_min |-> (sod \div 60) % 60,
                          tm_hour |-> sod \div 3600, tm_mday |-> c.mday,
                          tm_mon |-> c.mon - 1, tm_year |-> y - TM_YEAR_BASE,
                          tm_wday |-> WeekDay(doe),
                          tm_yday |-> DaysBeforeMonth(y, c.mon) + c.mday - 1,
                          tm_isdst |-> 0, tm_gmtoff |-> off, tm_zone |-> zone]]

(***************************************************************************)
(* The C library routines of the extern "C" block.                         *)
(***************************************************************************)
\* gmtime_r(&timestamp, &tm): null is TRUE on EOVERFLOW, else tm is filled
gmtime_r(timestamp) ==
    LET b == BreakDown(timestamp, 0, "GMT")
    IN  [null |-> ~b.ok, tm |-> b.tm]

\* mktime(&tm) in a process whose local time is `tz` seconds east of UTC
\* (no daylight saving rules).  Reads the six primary fields, normalises
\* them, and on success overwrites the whole tm.  On failure returns -1
\* and leaves tm as it was.
mktime(tm, tz) ==
    LET mon0 == tm.tm_mon % 12
        y    == tm.tm_year + TM_YEAR_BASE + (tm.tm_mon \div 12)
        day  == DaysFromCivil(y, mon0 + 1, tm.tm_mday)
        secs == tm.tm_hour * 3600 + tm.tm_min * 60 + tm.tm_sec - tz
        days == day.doe + (secs \div SecsPerDay)
        t    == [era |-> day.era + (days \div DaysPerEra),
                 doe |-> days % DaysPerEra, sod |-> secs % SecsPerDay]
        out  == BreakDown(t, tz, "LOCAL")
    IN  IF ~out.ok THEN [ret |-> MinusOne, tm |-> tm]
        ELSE [ret |-> t, tm |-> out.tm]

\* one strftime conversion: the text of %c for tm
Conversion(c, tm) ==
    CASE c = "Y" -> DO_NUMBER(1, tm.tm_year + TM_YEAR_BASE)
      [] c = "m" -> DO_NUMBER(2, tm.tm_mon + 1)
      [] c = "d" -> DO_NUMBER(2, tm.tm_mday)
      [] c = "H" -> DO_NUMBER(2, tm.tm_hour)
      [] c = "M" -> DO_NUMBER(2, tm.tm_min)
      [] c = "S" -> DO_NUMBER(2, tm.tm_sec)
      [] c = "%" -> <<"%">>
      [] OTHER   -> <<"%", c>>

RECURSIVE Render(_, _, _)
\* the full text strftime produces for format[i..] and tm
Render(format, i, tm) ==
    IF i > Len(format) THEN <<>>
    ELSE IF format[i] = "%" /\ i < Len(format)
         THEN Conversion(format[i + 1], tm) \o Render(format, i + 2, tm)
         ELSE <<format[i]>> \o Render(format, i + 1, tm)

\* strftime(s, maxsize, format, timeptr): the number of bytes placed in s
\* without the terminator, and the bytes; 0 when text and terminator do
\* not fit in maxsize bytes (the contents of s are then unspecified)
strftime(maxsize, format, tm) ==
    LET out == Render(format, 1, tm)
    IN  IF Len(out) + 1 > maxsize THEN [len |-> 0, s |-> <<>>]
        ELSE [len |-> Len(out), s |-> out]

RECURSIVE SkipSpace(_, _)
SkipSpace(s, i) == IF ISSPACE(CharAt(s, i)) THEN SkipSpace(s, i + 1) ELSE i

RECURSIVE ReadDigits(_, _, _, _, _)
\* the inner loop of glibc's get_number after its first digit
ReadDigits(s, i, val, n, to) ==
    IF n > 0 /\ val * 10 <= to /\ IsDigit(CharAt(s, i))
    THEN ReadDigits(s, i + 1, val * 10 + DigitVal(s[i]), n - 1, to)
    ELSE [val |-> val, rp |-> i]

\* glibc strptime get_number (from, to, n) at s[i]
get_number(s, i, from, to, n) ==
    LET j == SkipSpace(s, i)
    IN  IF ~IsDigit(CharAt(s, j)) THEN [ok |-> FALSE, val |-> 0, rp |-> j]
        ELSE LET r == ReadDigits(s, j + 1, DigitVal(s[j]), n - 1, to)
             IN  [ok |-> r.val >= from /\ r.val <= to, val |-> r.val, rp |-> r.rp]

RECURSIVE strptime_from(_, _, _, _, _)
\* strptime with the text read up to rp and the format up to fp
strptime_from(s, rp, format, fp, tm) ==
    LET f == CharAt(format, fp)
    IN  IF f = EOS THEN [null |-> FALSE, rp |-> rp, tm |-> tm]
        ELSE IF ISSPACE(f) THEN strptime_from(s, SkipSpace(s, rp), format, fp + 1, tm)
        ELSE IF f # "%"
             THEN IF CharAt(s, rp) = f
                  THEN strptime_from(s, rp + 1, format, fp + 1, tm)
                  ELSE [null |-> TRUE, rp |-> rp, tm |-> tm]
        ELSE LET c == CharAt(format, fp + 1)
                 num(from, to, n) == get_number(s, rp, from, to, n)
                 next(r, tm2) ==
                     IF r.ok THEN strptime_from(s, r.rp, format, fp + 2, tm2)
                     ELSE [null |-> TRUE, rp |-> rp, tm |-> tm]
             IN  CASE c = "%" ->
                        IF CharAt(s, rp) = "%"
                        THEN strptime_from(s, rp + 1, format, fp + 2, tm)
                        ELSE [null |-> TRUE, rp |-> rp, tm |-> tm]
                   [] c = "Y" ->
                        LET r == num(0, 9999, 4)
                        IN  next(r, [tm EXCEPT !.tm_year = r.val - TM_YEAR_BASE])
                   [] c = "m" ->
                        LET r == num(1, 12, 2)
                        IN  next(r, [tm EXCEPT !.tm_mon = r.val - 1])
                   [] c = "d" ->
                        LET r == num(1, 31, 2)
                        IN  next(r, [tm EXCEPT !.tm_mday = r.val])
                   [] c = "H" ->
                        LET r == num(0, 23, 2)
                        IN  next(r, [tm EXCEPT !.tm_hour = r.val])
                   [] c = "M" ->
                        LET r == num(0, 59, 2)
                        IN  next(r, [tm EXCEPT !.tm_min = r.val])
                   [] c = "S" ->
                        LET r == num(0, 61, 2)
                        IN  next(r, [tm EXCEPT !.tm_sec = r.val])
                   [] OTHER -> [null |-> TRUE, rp |-> rp, tm |-> tm]

\* strptime(s, format, &tm): null, or rp the index of the first
\* character of s that was not read; tm as the routine left it
\* (its recomputation of tm_wday and tm_yday is left out: parse_strftime
\* overwrites tm_yday and never reads tm_wday)
strptime(s, format, tm) == strptime_from(s, 1, format, 1, tm)

\* a CString::new that lets an interior NUL byte through
CString_new_unchecked(s) == [ok |-> TRUE, s |-> s]

\* CString::new(s): fails when s has an interior NUL byte
CString_new(s) ==
    IF \E i \in 1..Len(s) : s[i] = NUL THEN [ok |-> FALSE, s |-> <<>>]
    ELSE [ok |-> TRUE, s |-> s]

(***************************************************************************)
(* enum Error and Result.                                                  *)
(***************************************************************************)
TimestampToTmError == "TimestampToTmError"
DateTimeParseError == "DateTimeParseError"
TimestampOverflowError == "TimestampOverflowError"
FormatError == "FormatError"

\* Result<i64, Error>
OkTime(t) == [kind |-> "Ok", err |-> "", val |-> t]
ErrTime(e) == [kind |-> "Err", err |-> e, val |-> TimeT(0, 0)]
NoTime == [kind |-> "None", err |-> "", val |-> TimeT(0, 0)]

\* Result<String, Error>
OkStr(s) == [kind |-> "Ok", err |-> "", val |-> s]
ErrStr(e) == [kind |-> "Err", err |-> e, val |-> <<>>]
NoStr == [kind |-> "None", err |-> "", val |-> <<>>]

(***************************************************************************)
(* parse_strftime, lines 113-139.  Besides the returned Result the record  *)
(* keeps what the call did: whether strptime and mktime ran, what they    *)
(* returned, and the tm handed to and left by mktime.                      *)
(***************************************************************************)
ParseOut(result, sp_called, sp_null, rp, mk_called, tm_in, mk_ret, tm_out) ==
    [result |-> result, strptime_called |-> sp_called, strptime_null |-> sp_null,
     rp |-> rp, mktime_called |-> mk_called, tm_in |-> tm_in, mk_ret |-> mk_ret,
     tm_out |-> tm_out]

NoParse == ParseOut(NoTime, FALSE, FALSE, 0, FALSE, tm_default, TimeT(0, 0), tm_default)

\* a parse_strftime without the is_null() check of lines 126-128
parse_strftime_unchecked(date_time, format, tz) ==
    LET f   == CString_new(format)
        d   == CString_new(date_time)
        p   == strptime(d.s, f.s, tm_default)
        tm1 == [p.tm EXCEPT !.tm_yday = -1]
        m   == mktime(tm1, tz)
    IN  IF ~f.ok
        THEN ParseOut(ErrTime(FormatError), FALSE, FALSE, 0, FALSE,
                      tm_default, TimeT(0, 0), tm_default)
        ELSE IF ~d.ok
        THEN ParseOut(ErrTime(FormatError), FALSE, FALSE, 0, FALSE,
                      tm_default, TimeT(0, 0), tm_default)
        ELSE IF m.ret = MinusOne /\ m.tm.tm_yday = -1
        THEN ParseOut(ErrTime(TimestampOverflowError), TRUE, p.null, p.rp, TRUE,
                      tm1, m.ret, m.tm)
        ELSE ParseOut(OkTime(m.ret), TRUE, p.null, p.rp, TRUE, tm1, m.ret, m.tm)

parse_strftime(date_time, format, tz) ==
    LET f   == CString_new(format)
        d   == CString_new(date_time)
        p   == strptime(d.s, f.s, tm_default)
        tm1 == [p.tm EXCEPT !.tm_yday = -1]
        m   == mktime(tm1, tz)
    IN  IF ~f.ok
        THEN ParseOut(ErrTime(FormatError), FALSE, FALSE, 0, FALSE,
                      tm_default, TimeT(0, 0), tm_default)
        ELSE IF ~d.ok
        THEN ParseOut(ErrTime(FormatError), FALSE, FALSE, 0, FALSE,
                      tm_default, TimeT(0, 0), tm_default)
        ELSE IF p.null
        THEN ParseOut(ErrTime(DateTimeParseError), TRUE, TRUE, p.rp, FALSE,
                      tm_default, TimeT(0, 0), tm_default)
        ELSE IF m.ret = MinusOne /\ m.tm.tm_yday = -1
        THEN ParseOut(ErrTime(TimestampOverflowError), TRUE, FALSE, p.rp, TRUE,
                      tm1, m.ret, m.tm)
        ELSE ParseOut(OkTime(m.ret), TRUE, FALSE, p.rp, TRUE, tm1, m.ret, m.tm)

(***************************************************************************)
(* strftime_format, lines 82-110, in steps.                                *)
(***************************************************************************)
\* lines 83-92: up to the allocation of the buffer
FormatPrologue(timestamp, format) ==
    LET g == gmtime_r(timestamp)
        f == CString_new(format)
    IN  IF g.null THEN [ok |-> FALSE, err |-> TimestampToTmError, tm |-> tm_default,
                        buf_size |-> 0, buf_len |-> 0]
        ELSE IF ~f.ok THEN [ok |-> FALSE, err |-> FormatError, tm |-> g.tm,
                            buf_size |-> 0, buf_len |-> 0]
        ELSE [ok |-> TRUE, err |-> "", tm |-> g.tm,
              buf_size |-> Len(format), buf_len |-> Len(format)]

\* a growth step that adds instead of doubling
GrowSize_additive(size) == size + 2

\* line 103: buf_size *= 2
GrowSize(size) == size * 2

(***************************************************************************)
(* Inputs.                                                                 *)
(***************************************************************************)
F_DATETIME == <<"%", "Y", "-", "%", "m", "-", "%", "d", " ", "%", "H", ":", "%", "M", ":", "%", "S">>
F_EMPTY == <<>>
F_YM == <<"%", "Y", "-", "%", "m">>
F_HM == <<"%", "H", ":", "%", "M">>
F_PCT == <<"%", "d", "%", "%">>
F_NUL == <<"%", "Y", NUL, "%", "m">>

S_EPOCH == <<"1", "9", "7", "0", "-", "0", "1", "-", "0", "1", " ", "0", "0", ":", "0", "0", ":", "0", "0">>
S_1969 == <<"1", "9", "6", "9", "-", "1", "2", "-", "3", "1", " ", "2", "3", ":", "5", "9", ":", "5", "9">>
S_2022 == <<"2", "0", "2", "2", "-", "1", "1", "-", "2", "2", " ", "1", "0", ":", "1", "2", ":", "3", "0">>
S_NOT_A_DATE == <<"n", "o", "t", "-", "a", "-", "d", "a", "t", "e">>
S_TRAILING == <<"1", "9", "7", "0", "-", "0", "1", "-", "0", "1", " ", "0", "0", ":", "0", "0", ":", "0", "0", "x", "y", "z">>
S_HUGE_YEAR == <<"9", "9", "9", "9", "9", "9", "9", "9", "9", "-", "0", "1", "-", "0", "1", " ", "0", "0", ":", "0", "0", ":", "0", "0">>
S_YM == <<"1", "9", "7", "0", "-", "0", "1">>
S_BAD_LITERAL == <<"1", "9", "7", "0", "/", "0", "1", "/", "0", "1", " ", "0", "0", ":", "0", "0", ":", "0", "0">>
S_BAD_MONTH == <<"1", "9", "7", "0", "-", "1", "3", "-", "0", "1", " ", "0", "0", ":", "0", "0", ":", "0", "0">>
S_HM == <<"1", "0", ":", "1", "2">>
S_NUL == <<"1", "9", "7", "0", NUL, "-", "0", "1">>

Formats == {F_DATETIME, F_EMPTY, F_YM, F_HM, F_PCT, F_NUL}

Texts == {S_EPOCH, S_1969, S_2022, S_NOT_A_DATE, S_TRAILING, S_HUGE_YEAR, S_YM,
          S_BAD_LITERAL, S_BAD_MONTH, S_HM, S_NUL, <<>>}

\* -1, 0, 86399, 2000-02-29, 2022-11-22 10:12:30, 1600-01-01, 2400-01-01
\* and the two ends of i64
Timestamps == {MinusOne, TimeT(0, 0), TimeT(0, 86399), TimeT(11016, 0),
               TimeT(19318, 36750), TimeT(-135140, 0), TimeT(157054, 0),
               I64_MAX, I64_MIN}

\* local time of the process, in seconds east of UTC (the TZ setting)
TZOffsets == {-3600, 0, 3600}

(***************************************************************************)
(* State.                                                                  *)
(***************************************************************************)
VARIABLES
    tz,          \* ambient time zone of the process, read by mktime
    pc,          \* "idle", "loop" (line 93), "check" (line 102), "done"
    op,          \* "none", "format", "parse"
    timestamp,   \* argument of strftime_format
    format,      \* argument of both functions
    date_time,   \* argument of parse_strftime
    tm,          \* strftime_format's tm
    buf_size,    \* strftime_format's buf_size
    buf_len,     \* buf.len(), the allocated length of the Vec
    buf,         \* what strftime wrote
    maxsize,     \* the maxsize of the latest strftime call
    len,         \* the latest return value of strftime
    attempts,    \* number of strftime calls of this call, saturating
    fresult,     \* what strftime_format returned
    pcall,       \* what parse_strftime did and returned
    roundtrip    \* TRUE when date_time is the output of strftime_format(timestamp, format)

vars == <<tz, pc, op, timestamp, format, date_time, tm, buf_size, buf_len, buf,
          maxsize, len, attempts, fresult, pcall, roundtrip>>

locals == <<tm, buf_size, buf_len, buf, maxsize, len, attempts>>

Init ==
    /\ tz \in TZOffsets
    /\ pc = "idle"
    /\ op = "none"
    /\ timestamp = TimeT(0, 0)
    /\ format = <<>>
    /\ date_time = <<>>
    /\ tm = tm_default
    /\ buf_size = 0
    /\ buf_len = 0
    /\ buf = <<>>
    /\ maxsize = 0
    /\ len = 0
    /\ attempts = 0
    /\ fresult = NoStr
    /\ pcall = NoParse
    /\ roundtrip = FALSE

(***************************************************************************)
(* Actions.                                                                *)
(***************************************************************************)
\* strftime_format(ts, fmt) is called: lines 83-92
FormatEnter(ts, fmt) ==
    /\ pc = "idle"
    /\ LET pr == FormatPrologue(ts, fmt)
       IN  /\ tm' = pr.tm
           /\ buf_size' = pr.buf_size
           /\ buf_len' = pr.buf_len
           /\ pc' = IF pr.ok THEN "loop" ELSE "done"
           /\ fresult' = IF pr.ok THEN NoStr ELSE ErrStr(pr.err)
    /\ op' = "format"
    /\ timestamp' = ts
    /\ format' = fmt
    /\ UNCHANGED <<tz, date_time, buf, maxsize, len, attempts, pcall, roundtrip>>

\* lines 94-101: one call of strftime with capacity buf_size
FormatAttempt ==
    /\ pc = "loop"
    /\ LET r == strftime(buf_size, format, tm)
       IN  /\ len' = r.len
           /\ buf' = r.s
    /\ maxsize' = buf_size
    /\ attempts' = IF attempts < MaxAttempts THEN attempts + 1 ELSE attempts
    /\ pc' = "check"
    /\ UNCHANGED <<tz, op, timestamp, format, date_time, tm, buf_size, buf_len,
                   fresult, pcall, roundtrip>>

\* lines 102-104: a zero length doubles the buffer and retries
FormatGrow ==
    /\ pc = "check"
    /\ len = 0
    /\ buf_size' = GrowSize(buf_size)
    /\ buf_len' = buf_size'
    /\ pc' = "loop"
    /\ UNCHANGED <<tz, op, timestamp, format, date_time, tm, buf, maxsize, len,
                   attempts, fresult, pcall, roundtrip>>

\* lines 105-107: truncate to len and return the string
FormatReturn ==
    /\ pc = "check"
    /\ len # 0
    /\ buf_len' = len
    /\ fresult' = OkStr(SubSeq(buf, 1, len))
    /\ pc' = "done"
    /\ UNCHANGED <<tz, op, timestamp, format, date_time, tm, buf_size, buf,
                   maxsize, len, attempts, pcall, roundtrip>>

\* parse_strftime(text, fmt) is called and returns: lines 113-139
ParseCall(text, fmt) ==
    /\ pc = "idle"
    /\ op' = "parse"
    /\ date_time' = text
    /\ format' = fmt
    /\ pcall' = parse_strftime(text, fmt, tz)
    /\ roundtrip' = FALSE
    /\ pc' = "done"
    /\ UNCHANGED <<tz, timestamp, fresult, locals>>

\* the caller hands the string strftime_format returned to parse_strftime
\* with the same format
ParseBack ==
    /\ pc = "done"
    /\ op = "format"
    /\ fresult.kind = "Ok"
    /\ op' = "parse"
    /\ date_time' = fresult.val
    /\ pcall' = parse_strftime(fresult.val, format, tz)
    /\ roundtrip' = TRUE
    /\ UNCHANGED <<tz, pc, timestamp, format, fresult, locals>>

Next ==
    \/ \E ts \in Timestamps, fmt \in Formats : FormatEnter(ts, fmt)
    \/ FormatAttempt
    \/ FormatGrow
    \/ FormatReturn
    \/ \E text \in Texts, fmt \in Formats : ParseCall(text, fmt)
    \/ ParseBack

Spec == Init /\ [][Next]_vars

\* a call that is running keeps running: the loop of lines 93-109 is
\* ordinary synchronous code
LiveSpec ==
    /\ Spec
    /\ WF_vars(FormatAttempt)
    /\ WF_vars(FormatGrow)
    /\ WF_vars(FormatReturn)

(***************************************************************************)
(* Properties.                                                             *)
(***************************************************************************)
ParseDone == pc = "done" /\ op = "parse"

HasNul(s) == NUL \in {s[i] : i \in 1..Len(s)}

RECURSIVE Directives(_, _)
\* the conversion characters of a format, read the way strptime reads it
Directives(fmt, i) ==
    IF i >= Len(fmt) THEN {}
    ELSE IF fmt[i] = "%" THEN {fmt[i + 1]} \cup Directives(fmt, i + 2)
    ELSE Directives(fmt, i + 1)

\* seconds from the epoch to the civil time of a tm read as UTC
SecondsFromEpoch(t) == mktime(t, 0).ret

\* C1: round trip.  When the string strftime_format(T, "%Y-%m-%d %H:%M:%S")
\* returned is parsed with the same format, parse_strftime returns Ok(T).
C1_RoundTrip ==
    (ParseDone /\ roundtrip /\ format = F_DATETIME)
        => pcall.result = OkTime(timestamp)

\* C2: parse_strftime returns TimestampOverflowError exactly when the text
\* matched, mktime returned -1 and tm_yday is still the sentinel -1; when
\* mktime overwrote tm_yday its value is returned as Ok, and
\* "1969-12-31 23:59:59" parses to Ok(-1).
C2_OverflowSentinel ==
    ParseDone =>
        /\ (pcall.result = ErrTime(TimestampOverflowError))
             <=> (/\ pcall.strptime_called
                  /\ ~pcall.strptime_null
                  /\ pcall.mktime_called
                  /\ pcall.mk_ret = MinusOne
                  /\ pcall.tm_out.tm_yday = -1)
        /\ (pcall.mktime_called /\ pcall.tm_out.tm_yday # -1)
             => pcall.result = OkTime(pcall.mk_ret)
        /\ (date_time = S_1969 /\ format = F_DATETIME)
             => pcall.result = OkTime(MinusOne)

\* C3: every call of strftime_format completes: once the retry loop is
\* entered the call eventually returns.
C3_Termination == (pc = "loop") ~> (pc = "done")

\* C4: the results do not depend on the time zone of the process: every
\* result of parse_strftime is the one computed in UTC, every result of
\* strftime_format is the rendering of the UTC civil time, and
\* "1970-01-01 00:00:00" parses to Ok(0).
C4_TimeZoneIndependent ==
    /\ ParseDone => pcall.result = parse_strftime(date_time, format, 0).result
    /\ (ParseDone /\ date_time = S_EPOCH /\ format = F_DATETIME)
         => pcall.result = OkTime(TimeT(0, 0))
    /\ (pc = "done" /\ op = "format" /\ fresult.kind = "Ok")
         => fresult.val = Render(format, 1, BreakDown(timestamp, 0, "GMT").tm)

C6_TrailingInputRejected ==
    ParseDone =>
        /\ pcall.result.kind = "Ok" => pcall.rp = Len(date_time) + 1
        /\ (date_time = S_TRAILING /\ format = F_DATETIME)
             => pcall.result = ErrTime(DateTimeParseError)

\* C7: the tm handed to mktime has year 1900, day of month 1 and hour,
\* minute, second 0 in every field the format has no directive for, so
\* that without a day directive the result is the first day of the month.
C7_DefaultFilling ==
    (ParseDone /\ pcall.mktime_called) =>
        LET D == Directives(format, 1)
        IN  /\ "Y" \notin D => pcall.tm_in.tm_year + TM_YEAR_BASE = 1900
            /\ "d" \notin D => (pcall.tm_in.tm_mday = 1 /\ pcall.tm_out.tm_mday = 1)
            /\ "H" \notin D => pcall.tm_in.tm_hour = 0
            /\ "M" \notin D => pcall.tm_in.tm_min = 0
            /\ "S" \notin D => pcall.tm_in.tm_sec = 0

\* C8: a text with year 999999999 gives TimestampOverflowError, and every
\* Ok(t) is the exact number of seconds from the epoch to the parsed
\* civil time.
C8_OverflowRejected ==
    ParseDone =>
        /\ (date_time = S_HUGE_YEAR /\ format = F_DATETIME)
             => pcall.result = ErrTime(TimestampOverflowError)
        /\ pcall.result.kind = "Ok"
             => pcall.result.val = SecondsFromEpoch(pcall.tm_in)

\* C9: an embedded NUL byte in the format or the text makes parse_strftime
\* return FormatError without calling strptime or mktime; an embedded NUL
\* byte in the format makes strftime_format return FormatError without ever
\* calling strftime, provided gmtime_r accepted the timestamp.
C9_NulIsFormatError ==
    /\ (ParseDone /\ (HasNul(format) \/ HasNul(date_time)))
         => (/\ pcall.result = ErrTime(FormatError)
             /\ ~pcall.strptime_called
             /\ ~pcall.mktime_called)
    /\ (op = "format" /\ HasNul(format) /\ ~gmtime_r(timestamp).null)
         => (/\ pc = "done"
             /\ fresult = ErrStr(FormatError)
             /\ attempts = 0)

C9_Witness ==
    /\ pc = "done"
    /\ op = "format"
    /\ format = F_NUL
    /\ timestamp = MinusOne
    /\ fresult = ErrStr(FormatError)

\* C10: the first strftime attempt has capacity format.len(), attempt k+1
\* has capacity format.len() * 2^k, and the capacity passed is always the
\* allocated length of the buffer.
C10_SizingProtocol ==
    /\ pc = "loop" =>
         /\ buf_len = buf_size
         /\ attempts < MaxAttempts => buf_size = Len(format) * Pow2(attempts)
    /\ pc = "check" =>
         /\ maxsize = buf_len
         /\ attempts < MaxAttempts => maxsize = Len(format) * Pow2(attempts - 1)

C10_Witness ==
    /\ pc = "check"
    /\ format = F_DATETIME
    /\ attempts = 2
    /\ maxsize = 34
    /\ len = 19

====
